---- MODULE Spec2Model ----
(***************************************************************************)
(* The attendance ledger of script.js: class Block, class Blockchain, the  *)
(* localStorage item 'attendanceBlockchain' and the button handlers.       *)
(*                                                                         *)
(* Strings are sequences of character codes, so that string concatenation, *)
(* JSON.stringify, UTF-8 encoding, btoa and substring(0, 64) are computed  *)
(* as the code computes them.                                              *)
(***************************************************************************)
EXTENDS Integers, Sequences, FiniteSets, TLC

\* ------------------------------------------------------------------ bounds

\* The longest chain an append may produce (genesis included).
MaxLen == 3

\* The clock runs over the ticks 0..MaxNow; one tick is a day.
MaxNow == 1

\* The most days of attendance a summary is computed over.
MaxDays == 20

\* The most days of attendance in a stored history that is tampered with.
MaxEntries == 3

\* ------------------------------------------------------- string literals

\* 'N/A', the genesis block's studentId and date (line 61)
NA == <<78, 47, 65>>

\* 'Genesis Block', the genesis block's status (line 61)
GenesisStatus == <<71, 101, 110, 101, 115, 105, 115, 32, 66, 108, 111, 99, 107>>

\* 'present' (line 251)
Present == <<112, 114, 101, 115, 101, 110, 116>>

\* 'absent' (line 274)
Absent == <<97, 98, 115, 101, 110, 116>>

\* 'S"', a student id with a character JSON.stringify escapes
SQuote == <<83, 34>>

\* The texts typed into #studentIdInput: '', ' ', ' S" ', 'N/A'.
StudentIdInputs ==
    { <<>>, <<32>>, <<32>> \o SQuote \o <<32>>, NA }

\* --------------------------------------------------- platform functions

Min(a, b) == IF a < b THEN a ELSE b

\* Number.prototype.toString for a non-negative integer: its decimal digits.
RECURSIVE NumberToString(_)
NumberToString(n) ==
    IF n < 10 THEN <<48 + n>>
    ELSE NumberToString(n \div 10) \o <<48 + (n % 10)>>

\* The decimal digits of n, zero-padded on the left to width w.
RECURSIVE PadStart(_, _)
PadStart(n, w) ==
    IF w = 0 THEN <<>>
    ELSE PadStart(n \div 10, w - 1) \o <<48 + (n % 10)>>

\* Date.now() at tick t is 1704067200000 + t * 86400000 ms (2024-01-01T00:00Z
\* plus t days). The value is kept as the tick; these are its low part
\* (below 17040 * 10^8) and its decimal digits.
MillisLow(t) == 67200000 + t * 86400000

TimestampString(t) ==
    NumberToString(17040 + (MillisLow(t) \div 100000000))
        \o PadStart(MillisLow(t) % 100000000, 8)

\* new Date().toISOString().slice(0, 10) at tick t: 'YYYY-MM-DD' in UTC.
ISODate(t) == <<50, 48, 50, 52, 45, 48, 49, 45>> \o PadStart(1 + t, 2)

\* String.prototype.trim: strips white space at both ends.
WhiteSpace == {9, 10, 11, 12, 13, 32}

RECURSIVE TrimStart(_)
TrimStart(s) ==
    IF s # <<>> /\ Head(s) \in WhiteSpace THEN TrimStart(Tail(s)) ELSE s

RECURSIVE TrimEnd(_)
TrimEnd(s) ==
    IF s # <<>> /\ s[Len(s)] \in WhiteSpace
    THEN TrimEnd(SubSeq(s, 1, Len(s) - 1))
    ELSE s

\* trim left out: the text as typed.
trimNothing(s) == s

trim(s) == TrimEnd(TrimStart(s))

\* JSON.stringify of a string: quoted, with '"' and '\' escaped by '\'. (The
\* strings here hold no control characters, which it escapes too.)
RECURSIVE JSONEscape(_)
JSONEscape(s) ==
    IF \A i \in 1..Len(s) : s[i] \notin {34, 92} THEN s
    ELSE (IF Head(s) \in {34, 92} THEN <<92, Head(s)>> ELSE <<Head(s)>>)
             \o JSONEscape(Tail(s))

JSONString(s) == <<34>> \o JSONEscape(s) \o <<34>>

\* JSON.stringify(data) for { studentId, status, date }, keys in insertion
\* order: {"studentId":"..","status":"..","date":".."}
JSONStringifyData(data) ==
    <<123, 34, 115, 116, 117, 100, 101, 110, 116, 73, 100, 34, 58>>
        \o JSONString(data.studentId)
        \o <<44, 34, 115, 116, 97, 116, 117, 115, 34, 58>>
        \o JSONString(data.status)
        \o <<44, 34, 100, 97, 116, 101, 34, 58>>
        \o JSONString(data.date)
        \o <<125>>

\* JSON.parse of a string's text with the quotes dropped and nothing else.
JSONParseStringRaw(text) == SubSeq(text, 2, Len(text) - 1)

\* JSON.parse of a string's text: the quotes dropped, and every '\' with the
\* character after it replaced by that character.
RECURSIVE JSONUnescape(_)
JSONUnescape(s) ==
    IF \A i \in 1..Len(s) : s[i] # 92 THEN s
    ELSE IF Head(s) = 92
    THEN <<s[2]>> \o JSONUnescape(SubSeq(s, 3, Len(s)))
    ELSE <<Head(s)>> \o JSONUnescape(Tail(s))

JSONParseString(text) == JSONUnescape(SubSeq(text, 2, Len(text) - 1))

\* JSON.parse of a number's text: the value of its decimal digits.
RECURSIVE JSONParseNumber(_)
JSONParseNumber(text) ==
    IF Len(text) = 1 THEN text[1] - 48
    ELSE 10 * JSONParseNumber(SubSeq(text, 1, Len(text) - 1))
             + (text[Len(text)] - 48)

\* JSON.parse of a timestamp's text: the tick whose Date.now() it is, from
\* its digits above and below 10^8.
JSONParseTimestamp(text) ==
    LET high == JSONParseNumber(SubSeq(text, 1, Len(text) - 8))
        low == JSONParseNumber(SubSeq(text, Len(text) - 7, Len(text)))
    IN  ((high - 17040) * 100000000 + low - MillisLow(0)) \div 86400000

\* unescape(encodeURIComponent(s)): the UTF-8 bytes of s, one character per
\* byte (code points below 2048). A string of ASCII characters is its own
\* encoding; any other is encoded by halves.
RECURSIVE UTF8(_)
UTF8(s) ==
    IF \A i \in 1..Len(s) : s[i] < 128 THEN s
    ELSE IF Len(s) = 1
    THEN <<192 + (s[1] \div 64), 128 + (s[1] % 64)>>
    ELSE UTF8(SubSeq(s, 1, Len(s) \div 2))
             \o UTF8(SubSeq(s, (Len(s) \div 2) + 1, Len(s)))

\* The base64 alphabet: A-Z a-z 0-9 + /
B64Alphabet ==
    <<65, 66, 67, 68, 69, 70, 71, 72, 73, 74, 75, 76, 77, 78, 79, 80,
      81, 82, 83, 84, 85, 86, 87, 88, 89, 90, 97, 98, 99, 100, 101, 102,
      103, 104, 105, 106, 107, 108, 109, 110, 111, 112, 113, 114, 115, 116, 117, 118,
      119, 120, 121, 122, 48, 49, 50, 51, 52, 53, 54, 55, 56, 57, 43, 47>>

B64Char(v) == B64Alphabet[v + 1]

\* The 4 characters btoa gives for bytes g+1..g+3: 6 bits each, '=' where
\* the string ends before the byte.
btoaGroup(bytes, g) ==
    IF g + 3 <= Len(bytes)
    THEN << B64Char(bytes[g + 1] \div 4),
            B64Char((bytes[g + 1] % 4) * 16 + (bytes[g + 2] \div 16)),
            B64Char((bytes[g + 2] % 16) * 4 + (bytes[g + 3] \div 64)),
            B64Char(bytes[g + 3] % 64) >>
    ELSE IF g + 2 <= Len(bytes)
    THEN << B64Char(bytes[g + 1] \div 4),
            B64Char((bytes[g + 1] % 4) * 16 + (bytes[g + 2] \div 16)),
            B64Char((bytes[g + 2] % 16) * 4),
            61 >>
    ELSE << B64Char(bytes[g + 1] \div 4),
            B64Char((bytes[g + 1] % 4) * 16),
            61,
            61 >>

\* btoa(bytes).substring(0, n): the first n characters of the base64 text,
\* all of it when it is shorter. Of the text's groups of 4 characters, those
\* wholly past character n are not computed.
btoaSubstring(bytes, n) ==
    LET count == Min((Len(bytes) + 2) \div 3, (n + 3) \div 4)
    IN  CHOOSE text \in
            {[p \in 1..Min(4 * count, n) |->
                    groups[((p - 1) \div 4) + 1][((p - 1) % 4) + 1]] :
                groups \in {[q \in 1..count |-> btoaGroup(bytes, 3 * (q - 1))]}} :
            TRUE

\* ------------------------------------------------------------ class Block

\* The length the hash is truncated to (line 43).
HashLen == 64

\* Block.calculateHash
calculateHash(b) ==
    LET str == NumberToString(b.index) \o b.previousHash
                   \o TimestampString(b.timestamp)
                   \o JSONStringifyData(b.data)
    IN  CHOOSE hash \in
            {btoaSubstring(bytes, HashLen) :
                bytes \in {UTF8(s) : s \in {str}}} : TRUE

\* Block with the hash calculated before previousHash is assigned.
BlockHashBeforePrevious(index, timestamp, data, previousHash) ==
    LET b == [index |-> index, timestamp |-> timestamp, data |-> data,
              previousHash |-> <<>>, hash |-> <<>>]
    IN  [b EXCEPT !.hash = calculateHash(b), !.previousHash = previousHash]

\* new Block(index, timestamp, data, previousHash)
Block(index, timestamp, data, previousHash) ==
    LET b == [index |-> index, timestamp |-> timestamp, data |-> data,
              previousHash |-> previousHash, hash |-> <<>>]
    IN  [b EXCEPT !.hash = calculateHash(b)]

\* ------------------------------------------------------- class Blockchain

\* createGenesisBlock without its last argument: previousHash defaults to ''.
createGenesisBlockNoPrevious(t) ==
    Block(0, t, [studentId |-> NA, status |-> GenesisStatus, date |-> NA], <<>>)

\* Blockchain.createGenesisBlock, with Date.now() at tick t
createGenesisBlock(t) ==
    Block(0, t, [studentId |-> NA, status |-> GenesisStatus, date |-> NA], <<48>>)

\* Blockchain.getLatestBlock
getLatestBlock(c) == c[Len(c)]

\* The localStorage item 'attendanceBlockchain': has is FALSE when getItem
\* returns null. Otherwise json is the stored text, an array of objects, kept
\* as the texts of the objects' members.
NoItem == [has |-> FALSE, json |-> <<>>]

\* JSON.stringify(this.chain): every block's own properties, in chain order.
JSONStringifyChain(c) ==
    [i \in 1..Len(c) |->
        [index |-> NumberToString(c[i].index),
         timestamp |-> TimestampString(c[i].timestamp),
         data |-> [studentId |-> JSONString(c[i].data.studentId),
                   status |-> JSONString(c[i].data.status),
                   date |-> JSONString(c[i].data.date)],
         previousHash |-> JSONString(c[i].previousHash),
         hash |-> JSONString(c[i].hash)]]

\* JSON.parse(storedChain): the plain objects of the stored text.
JSONParse(json) ==
    [i \in 1..Len(json) |->
        [index |-> JSONParseNumber(json[i].index),
         timestamp |-> JSONParseTimestamp(json[i].timestamp),
         data |-> [studentId |-> JSONParseString(json[i].data.studentId),
                   status |-> JSONParseString(json[i].data.status),
                   date |-> JSONParseString(json[i].data.date)],
         previousHash |-> JSONParseString(json[i].previousHash),
         hash |-> JSONParseString(json[i].hash)]]

\* saveChain storing the chain as the page lists it, without its first block.
saveChainWithoutGenesis(c) ==
    [has |-> TRUE, json |-> JSONStringifyChain(SubSeq(c, 2, Len(c)))]

\* Blockchain.saveChain: the item the call leaves in localStorage
saveChain(c) == [has |-> TRUE, json |-> JSONStringifyChain(c)]

\* addBlock with unshift in place of push: the new block is put first.
addBlockUnshift(c, data, t) ==
    LET latestBlock == getLatestBlock(c)
    IN  <<Block(latestBlock.index + 1, t, data, latestBlock.hash)>> \o c

\* addBlock with the chain's length taken for the latest block's index + 1.
addBlockIndexFromLength(c, data, t) ==
    LET latestBlock == getLatestBlock(c)
    IN  Append(c, Block(Len(c) + 1, t, data, latestBlock.hash))

\* addBlock that heals: a chain that fails isChainValid is replaced by a new
\* genesis block before the push.
addBlockHealing(c, data, t) ==
    LET healed == IF \A i \in 1..(Len(c) - 1) :
                         /\ c[i + 1].hash = calculateHash(c[i + 1])
                         /\ c[i + 1].previousHash = c[i].hash
                  THEN c ELSE <<createGenesisBlock(t)>>
        latestBlock == getLatestBlock(healed)
    IN  Append(healed, Block(latestBlock.index + 1, t, data, latestBlock.hash))

\* Blockchain.addBlock: the chain after the push, with Date.now() at tick t
addBlock(c, data, t) ==
    LET latestBlock == getLatestBlock(c)
    IN  Append(c, Block(latestBlock.index + 1, t, data, latestBlock.hash))

\* Blockchain.loadChain on a present item: a Block object for every plain
\* object, with the stored hash assigned (line 120) over the one the
\* constructor computed.
loadChain(item) ==
    LET parsedChain == JSONParse(item.json)
    IN  [i \in 1..Len(parsedChain) |->
            LET blockData == parsedChain[i]
            IN  [index |-> blockData.index, timestamp |-> blockData.timestamp,
                 data |-> blockData.data,
                 previousHash |-> blockData.previousHash,
                 hash |-> blockData.hash]]

\* new Blockchain() with the genesis block stamped 0 ticks, not Date.now().
NewBlockchainFixedGenesis(item, t) ==
    IF item.has THEN loadChain(item) ELSE <<createGenesisBlock(0)>>

\* new Blockchain(): this.loadChain() || [this.createGenesisBlock()]
NewBlockchain(item, t) ==
    IF item.has THEN loadChain(item) ELSE <<createGenesisBlock(t)>>

\* Blockchain.isChainValid. The loop runs over i = 1 .. length - 1 (0-based, as
\* the code counts; block i is c[i + 1] here) and returns false at the first i
\* that fails the hash check or, passing it, the link check.
HashMismatch(c, i) == c[i + 1].hash # calculateHash(c[i + 1])

LinkMismatch(c, i) == c[i + 1].previousHash # c[i].hash

\* The loop from i on: what it logs with console.error before it returns
\* false, the block and the check that failed; "none" when it returns true.
RECURSIVE isChainValidFrom(_, _)
isChainValidFrom(c, i) ==
    IF ~(i < Len(c)) THEN [block |-> 0, check |-> "none"]
    ELSE IF HashMismatch(c, i) THEN [block |-> i, check |-> "hash"]
    ELSE IF LinkMismatch(c, i) THEN [block |-> i, check |-> "link"]
    ELSE isChainValidFrom(c, i + 1)

\* The loop begun at i = 2.
consoleErrorFromSecond(c) == isChainValidFrom(c, 2)

consoleError(c) == isChainValidFrom(c, 1)

isChainValid(c) == consoleError(c).check = "none"

\* Matches with the block's timestamp compared to today in place of its date.
MatchesTimestamp(c, today, studentId) ==
    {i \in 1..Len(c) :
        TimestampString(c[i].timestamp) = today /\ c[i].data.studentId = studentId}

\* Array.prototype.find with the handlers' predicate (lines 242-244): the
\* position of the first block with this date and studentId, 0 when none.
Matches(c, today, studentId) ==
    {i \in 1..Len(c) : c[i].data.date = today /\ c[i].data.studentId = studentId}

find(c, today, studentId) ==
    IF Matches(c, today, studentId) = {} THEN 0
    ELSE CHOOSE i \in Matches(c, today, studentId) :
             \A j \in Matches(c, today, studentId) : i <= j

\* ------------------------------------------------------------------ state

VARIABLES
    chain,      \* attendanceBlockchain.chain
    store,      \* the localStorage item 'attendanceBlockchain'
    now,        \* the clock, in ticks
    message,    \* what #messageBox shows (showMessage)
    edited,     \* whether a block was edited behind the program's back
    summary,    \* what the summary panel shows (updateAttendanceSummary)
    dialog,     \* whether confirm's overlay is open
    loaded,     \* whether the script ran to its end, registering the handlers
    other       \* a second tab of the page, in the background

vars == <<chain, store, now, message, edited, summary, dialog, loaded, other>>

\* showMessage(message, type): the type and the parts the text is built from.
Message(type, what, studentId, today, status) ==
    [type |-> type, what |-> what, studentId |-> studentId, today |-> today,
     status |-> status]

\* #messageBox as index.html ships it: hidden and empty.
NoMessage == Message("none", "none", <<>>, <<>>, <<>>)

\* updateAttendanceSummary with > in place of >= at line 165.
updateAttendanceSummaryAbove(c) ==
    LET days == SubSeq(c, 2, Len(c))
        totalDays == Len(days)
        presentDays ==
            Cardinality({i \in 1..Len(days) : days[i].data.status = Present})
    IN  [totalDays |-> totalDays,
         presentDays |-> presentDays,
         absentDays |-> totalDays - presentDays,
         attendancePercentage |->
             IF totalDays > 0
             THEN (200 * presentDays * 100 + totalDays) \div (2 * totalDays)
             ELSE 0,
         eligibilityStatus |->
             IF totalDays = 0 THEN "N/A"
             ELSE IF presentDays * 100 > 85 * totalDays THEN "Eligible!"
             ELSE "Not Eligible"]

\* updateAttendanceSummary on chain c: the texts it writes to the summary
\* panel. attendancePercentage is kept as the exact quotient num / den; the
\* double the code computes compares with 85 as the quotient does, and
\* toFixed(2) rounds it as the quotient rounds, for fewer than 32 days.
toFixed2(q) == (200 * q.num + q.den) \div (2 * q.den)

updateAttendanceSummary(c) ==
    LET days == SubSeq(c, 2, Len(c))
        totalDays == Len(days)
        presentDays ==
            Cardinality({i \in 1..Len(days) : days[i].data.status = Present})
        absentDays == totalDays - presentDays
        attendancePercentage ==
            IF totalDays > 0 THEN [num |-> presentDays * 100, den |-> totalDays]
            ELSE [num |-> 0, den |-> 1]
        isEligible == attendancePercentage.num >= 85 * attendancePercentage.den
    IN  [totalDays |-> totalDays,
         presentDays |-> presentDays,
         absentDays |-> absentDays,
         attendancePercentage |-> toFixed2(attendancePercentage),
         eligibilityStatus |->
             IF totalDays = 0 THEN "N/A"
             ELSE IF isEligible THEN "Eligible!" ELSE "Not Eligible"]

\* The summary panel as index.html ships it: 0, 0, 0, 0.00%, N/A.
NoSummary ==
    [totalDays |-> 0, presentDays |-> 0, absentDays |-> 0,
     attendancePercentage |-> 0, eligibilityStatus |-> "N/A"]

\* A tab of the page: its chain and what it shows. NoTab is no tab.
Tab(c, shown, panel, overlay, ran) ==
    [chain |-> c, message |-> shown, summary |-> panel, dialog |-> overlay,
     loaded |-> ran]

NoTab == Tab(<<>>, NoMessage, NoSummary, FALSE, FALSE)

\* renderBlockchain's closing check (lines 226-228): the message the page
\* shows after rendering chain c, given the message it showed before.
renderBlockchain(c, shown) ==
    IF ~isChainValid(c)
    THEN Message("error", "tampered", <<>>, <<>>, <<>>)
    ELSE shown

\* The page is opened for the first time: no item in localStorage.
Init ==
    /\ now = 0
    /\ store = NoItem
    /\ chain = NewBlockchain(NoItem, 0)
    /\ message = renderBlockchain(chain, NoMessage)
    /\ edited = FALSE
    /\ summary = updateAttendanceSummary(chain)
    /\ dialog = FALSE
    /\ loaded = TRUE
    /\ other = NoTab

\* A day passes; showMessage's timer (lines 14-16) has hidden the message,
\* in either tab.
Tick ==
    /\ now < MaxNow
    /\ now' = now + 1
    /\ message' = NoMessage
    /\ other' = [other EXCEPT !.message = NoMessage]
    /\ UNCHANGED <<chain, store, edited, summary, dialog, loaded>>

\* MarkAttendance with the notice of an existing entry built from the status
\* asked for in place of the entry's.
MarkAttendanceNoticeOfNew(raw, status) ==
    LET studentId == trim(raw)
        today == ISODate(now)
        existingAttendance == find(chain, today, studentId)
    IN  IF studentId = <<>>
        THEN /\ message' = Message("error", "enterId", <<>>, <<>>, <<>>)
             /\ UNCHANGED <<chain, store, now, edited, summary, dialog, loaded,
                            other>>
        ELSE IF existingAttendance # 0
        THEN /\ message' = Message("info", "already", studentId, today, status)
             /\ UNCHANGED <<chain, store, now, edited, summary, dialog, loaded,
                            other>>
        ELSE /\ Len(chain) < MaxLen
             /\ chain' = addBlock(chain,
                                  [studentId |-> studentId, status |-> status,
                                   date |-> today],
                                  now)
             /\ store' = saveChain(chain')
             /\ summary' = updateAttendanceSummary(chain')
             /\ message' = Message("success", "marked", studentId, <<>>, status)
             /\ UNCHANGED <<now, edited, dialog, loaded, other>>

\* MarkAttendance with the chain read from localStorage again before the
\* entry is looked for and the block pushed.
MarkAttendanceOnStored(raw, status) ==
    LET studentId == trim(raw)
        today == ISODate(now)
        stored == IF store.has THEN loadChain(store) ELSE chain
        existingAttendance == find(stored, today, studentId)
    IN  IF studentId = <<>>
        THEN /\ message' = Message("error", "enterId", <<>>, <<>>, <<>>)
             /\ UNCHANGED <<chain, store, now, edited, summary, dialog, loaded,
                            other>>
        ELSE IF existingAttendance # 0
        THEN /\ message' = Message("info", "already", studentId, today,
                                   stored[existingAttendance].data.status)
             /\ UNCHANGED <<chain, store, now, edited, summary, dialog, loaded,
                            other>>
        ELSE /\ Len(stored) < MaxLen
             /\ chain' = addBlock(stored,
                                  [studentId |-> studentId, status |-> status,
                                   date |-> today],
                                  now)
             /\ store' = saveChain(chain')
             /\ summary' = updateAttendanceSummary(chain')
             /\ message' = Message("success", "marked", studentId, <<>>, status)
             /\ UNCHANGED <<now, edited, dialog, loaded, other>>

\* The click handlers of #markPresentBtn and #markAbsentBtn (lines 233-278),
\* which differ in the status alone; raw is the text in #studentIdInput.
\* After the append, renderBlockchain's warning is replaced by the message of
\* success.
MarkAttendance(raw, status) ==
    LET studentId == trim(raw)
        today == ISODate(now)
        existingAttendance == find(chain, today, studentId)
    IN  IF studentId = <<>>
        THEN /\ message' = Message("error", "enterId", <<>>, <<>>, <<>>)
             /\ UNCHANGED <<chain, store, now, edited, summary, dialog, loaded,
                            other>>
        ELSE IF existingAttendance # 0
        THEN /\ message' = Message("info", "already", studentId, today,
                                   chain[existingAttendance].data.status)
             /\ UNCHANGED <<chain, store, now, edited, summary, dialog, loaded,
                            other>>
        ELSE /\ Len(chain) < MaxLen
             /\ chain' = addBlock(chain,
                                  [studentId |-> studentId, status |-> status,
                                   date |-> today],
                                  now)
             /\ store' = saveChain(chain')
             /\ summary' = updateAttendanceSummary(chain')
             /\ message' = Message("success", "marked", studentId, <<>>, status)
             /\ UNCHANGED <<now, edited, dialog, loaded, other>>

\* A button of the page takes a click: its handler is registered, and
\* confirm's overlay, which covers the page, is not open.
Clickable == loaded /\ ~dialog

MarkPresent ==
    Clickable /\ \E raw \in StudentIdInputs : MarkAttendance(raw, Present)

MarkAbsent ==
    Clickable /\ \E raw \in StudentIdInputs : MarkAttendance(raw, Absent)

\* clearChain without line 139: the chain in memory is left as it is.
clearChainKeepsChain(c, t) == c

\* Blockchain.clearChain on chain c, with Date.now() at tick t: the chain it
\* leaves (line 139), which saveChain then stores.
clearChain(c, t) == <<createGenesisBlock(t)>>

\* The click handler of #clearDataBtn (lines 280-289). confirm (lines 298-331)
\* opens its overlay and returns a Promise, which is truthy, so the branch is
\* taken at once. After the reset, renderBlockchain finds the chain valid.
ClearData ==
    /\ Clickable
    /\ dialog' = TRUE
    /\ chain' = clearChain(chain, now)
    /\ store' = saveChain(chain')
    /\ summary' = updateAttendanceSummary(chain')
    /\ message' = Message("success", "cleared", <<>>, <<>>, <<>>)
    /\ UNCHANGED <<now, edited, loaded, other>>

\* The onclick handlers of #confirmYes and #confirmNo (lines 322-329): the
\* overlay is removed and the Promise resolved with the choice, which nothing
\* awaits.
Answer(choice) ==
    /\ dialog
    /\ dialog' = FALSE
    /\ UNCHANGED <<chain, store, now, message, edited, summary, loaded, other>>

AnswerYes == Answer(TRUE)

AnswerNo == Answer(FALSE)

\* JSON.parse(storedChain) throws a SyntaxError: a member's text is no JSON
\* string (a string's text ends with its closing quote).
SyntaxError(json) ==
    \E i \in 1..Len(json) :
        \E text \in {json[i].data.studentId, json[i].data.status,
                      json[i].data.date, json[i].previousHash, json[i].hash} :
            \/ Len(text) < 2
            \/ text[1] # 34
            \/ text[Len(text)] # 34

\* The page is loaded again: the script runs anew (line 145), then
\* window.onload (lines 292-295). When loadChain throws, the script ends at
\* line 145: no handler is registered and the page stays as index.html
\* ships it.
Restart ==
    /\ IF store.has /\ SyntaxError(store.json)
       THEN /\ chain' = <<>>
            /\ loaded' = FALSE
            /\ summary' = NoSummary
            /\ message' = NoMessage
       ELSE /\ chain' = NewBlockchain(store, now)
            /\ loaded' = TRUE
            /\ summary' = updateAttendanceSummary(chain')
            /\ message' = renderBlockchain(chain', NoMessage)
    /\ dialog' = FALSE
    /\ UNCHANGED <<store, now, edited, other>>

Next ==
    \/ Tick
    \/ MarkPresent
    \/ MarkAbsent
    \/ ClearData
    \/ AnswerYes
    \/ AnswerNo
    \/ Restart

Spec == Init /\ [][Next]_vars

\* --------------------------------------- edits behind the program's back

\* The payload fields, and a value other than the one a field has.
PayloadFields == {"studentId", "status", "date"}

OtherValue(field, value) ==
    IF field = "studentId" THEN (IF value = NA THEN SQuote ELSE NA)
    ELSE IF field = "status" THEN (IF value = Present THEN Absent ELSE Present)
    ELSE (IF value = ISODate(0) THEN ISODate(MaxNow) ELSE ISODate(0))

EditBlock(b, field) == [b EXCEPT !.data[field] = OtherValue(field, @)]

\* A block of the chain in memory gets one payload field changed, its hash
\* left as it was. One edit is made in a run.
EditMemory ==
    /\ ~edited
    /\ \E i \in 1..Len(chain), field \in PayloadFields :
           chain' = [chain EXCEPT ![i] = EditBlock(@, field)]
    /\ edited' = TRUE
    /\ UNCHANGED <<store, now, message, summary, dialog, loaded, other>>

\* The same edit made to the stored item: the member's text is replaced by
\* the text of the other value.
EditItem(o, field) ==
    [o EXCEPT !.data[field] = JSONString(OtherValue(field, JSONParseString(@)))]

EditStore ==
    /\ ~edited
    /\ store.has
    /\ \E i \in 1..Len(store.json), field \in PayloadFields :
           store' = [store EXCEPT !.json[i] = EditItem(@, field)]
    /\ edited' = TRUE
    /\ UNCHANGED <<chain, now, message, summary, dialog, loaded, other>>

NextEdited ==
    \/ Tick
    \/ MarkPresent
    \/ MarkAbsent
    \/ ClearData
    \/ AnswerYes
    \/ AnswerNo
    \/ Restart
    \/ EditMemory
    \/ EditStore

SpecEdited == Init /\ [][NextEdited]_vars

\* The page with edits of the chain in memory alone.
NextEditedMemory ==
    \/ Tick
    \/ MarkPresent
    \/ MarkAbsent
    \/ ClearData
    \/ AnswerYes
    \/ AnswerNo
    \/ Restart
    \/ EditMemory

SpecEditedMemory == Init /\ [][NextEditedMemory]_vars

\* ------------------------------------------------------ long histories

\* The chain after one student was marked once a day, present on the first
\* p days and absent on the a days after them.
RECURSIVE History(_, _)
History(p, a) ==
    IF p + a = 0 THEN <<createGenesisBlock(0)>>
    ELSE addBlock(History(IF a > 0 THEN p ELSE p - 1, IF a > 0 THEN a - 1 ELSE 0),
                  [studentId |-> SQuote,
                   status |-> IF a > 0 THEN Absent ELSE Present,
                   date |-> ISODate(p + a - 1)],
                  p + a - 1)

\* The script has run (line 145) on the item such a history left, the day
\* after its last entry; window.onload has not fired yet.
InitSummary ==
    \E p \in 0..MaxDays, a \in 0..MaxDays :
        /\ p + a <= MaxDays
        /\ store = IF p + a = 0 THEN NoItem ELSE saveChain(History(p, a))
        /\ now = p + a
        /\ chain = NewBlockchain(store, now)
        /\ message = NoMessage
        /\ edited = FALSE
        /\ summary = NoSummary
        /\ dialog = FALSE
        /\ loaded = TRUE
        /\ other = NoTab

\* window.onload (lines 292-295)
Onload ==
    /\ loaded
    /\ summary' = updateAttendanceSummary(chain)
    /\ message' = renderBlockchain(chain, message)
    /\ UNCHANGED <<chain, store, now, edited, dialog, loaded, other>>

NextSummary == Onload

SpecSummary == InitSummary /\ [][NextSummary]_vars

\* --------------------------------------------------- tampered histories

\* Another character than ch.
OtherChar(ch) == IF ch = 65 THEN 66 ELSE 65

\* An object of the stored text with members rewritten: the hash or the
\* previousHash in its last character, the index to the number after it.
StoredFields == {"hash", "previousHash", "index"}

TamperItem(o, fields) ==
    [o EXCEPT
        !.hash = IF "hash" \in fields
                 THEN [@ EXCEPT ![Len(o.hash) - 1] = OtherChar(@)] ELSE @,
        !.previousHash =
                 IF "previousHash" \in fields
                 THEN [@ EXCEPT ![Len(o.previousHash) - 1] = OtherChar(@)]
                 ELSE @,
        !.index = IF "index" \in fields
                  THEN NumberToString(JSONParseNumber(@) + 1) ELSE @]

\* The members of the array json that are rewritten: none, one or two.
Places(json) == (1..Len(json)) \X StoredFields

Rewritten(json) ==
    {{}} \cup {{x, y} : x \in Places(json), y \in Places(json)}

TamperStore(item, places) ==
    [item EXCEPT !.json =
        [i \in 1..Len(@) |->
            TamperItem(@[i], {field \in StoredFields : <<i, field>> \in places})]]

\* The script has run (line 145) on the item a history of up to MaxEntries
\* days left and a rewriting changed; window.onload has not fired yet.
InitLoaded ==
    \E p \in 0..MaxEntries, a \in 0..MaxEntries :
        /\ p + a <= MaxEntries
        /\ \E places \in Rewritten(saveChain(History(p, a)).json) :
               store = TamperStore(saveChain(History(p, a)), places)
        /\ now = p + a
        /\ chain = NewBlockchain(store, now)
        /\ message = NoMessage
        /\ edited = FALSE
        /\ summary = NoSummary
        /\ dialog = FALSE
        /\ loaded = TRUE
        /\ other = NoTab

NextLoaded == Onload

SpecLoaded == InitLoaded /\ [][NextLoaded]_vars

\* ------------------------------------------------------- tampered chains

\* The stored text of one object gets its hash or its previousHash rewritten
\* in the last character, once in a run; the page reads it when it is loaded
\* again (line 120 keeps the stored hash).
TamperedFields == {"hash", "previousHash"}

TamperStored ==
    /\ ~edited
    /\ store.has
    /\ \E i \in 1..Len(store.json), field \in TamperedFields :
           store' = [store EXCEPT !.json[i] = TamperItem(@, {field})]
    /\ edited' = TRUE
    /\ UNCHANGED <<chain, now, message, summary, dialog, loaded, other>>

NextTampered ==
    \/ Tick
    \/ MarkPresent
    \/ MarkAbsent
    \/ ClearData
    \/ AnswerYes
    \/ AnswerNo
    \/ Restart
    \/ TamperStored

SpecTampered == Init /\ [][NextTampered]_vars

\* ------------------------------------------------- a corrupt stored item

\* The stored text is cut short: it ends inside the last object's hash, a
\* string that is left without its closing quote.
CorruptStore ==
    /\ ~edited
    /\ store.has
    /\ store' = [store EXCEPT !.json[Len(store.json)].hash =
                                  SubSeq(@, 1, Len(@) - 1)]
    /\ edited' = TRUE
    /\ UNCHANGED <<chain, now, message, summary, dialog, loaded, other>>

NextCorrupt ==
    \/ Tick
    \/ MarkPresent
    \/ MarkAbsent
    \/ ClearData
    \/ AnswerYes
    \/ AnswerNo
    \/ Restart
    \/ CorruptStore

SpecCorrupt == Init /\ [][NextCorrupt]_vars

\* ------------------------------------------------------------ two tabs

\* The page is opened in a second tab of the same browser, which shares
\* localStorage: the script runs there (line 145), then window.onload.
Open ==
    /\ ~other.loaded
    /\ ~(store.has /\ SyntaxError(store.json))
    /\ other' = Tab(NewBlockchain(store, now),
                    renderBlockchain(NewBlockchain(store, now), NoMessage),
                    updateAttendanceSummary(NewBlockchain(store, now)),
                    FALSE, TRUE)
    /\ UNCHANGED <<chain, store, now, message, edited, summary, dialog,
                   loaded>>

\* The user turns to the other tab: the tab in front and the tab behind
\* change places, each with its own chain; localStorage is the same.
Switch ==
    /\ other.loaded
    /\ chain' = other.chain
    /\ message' = other.message
    /\ summary' = other.summary
    /\ dialog' = other.dialog
    /\ loaded' = other.loaded
    /\ other' = Tab(chain, message, summary, dialog, loaded)
    /\ UNCHANGED <<store, now, edited>>

\* The two tabs are used within one day.
NextSessions ==
    \/ MarkPresent
    \/ MarkAbsent
    \/ ClearData
    \/ AnswerYes
    \/ AnswerNo
    \/ Restart
    \/ Open
    \/ Switch

SpecSessions == Init /\ [][NextSessions]_vars

\* ----------------------------------------------------------------- claims

\* The block two chains of one length differ in.
EditedBlock(c, d) == CHOOSE i \in 1..Len(c) : c[i] # d[i]

\* What the claim expects of a chain whose block at position k (block k - 1
\* as the code counts) was edited: it is invalid, and the hash mismatch is
\* logged for that block.
Detected(c, k) ==
    /\ ~isChainValid(c)
    /\ consoleError(c) = [block |-> k - 1, check |-> "hash"]

\* C1: an edit of one payload field of a block that is not the last one, in a
\* valid chain of 2 blocks or more, makes isChainValid return false with the
\* hash mismatch reported for that block; so does the same edit made to the
\* stored item, once the chain is loaded from it.
C1_TamperDetection ==
    [][ /\ ( /\ EditMemory
             /\ isChainValid(chain)
             /\ Len(chain) >= 2
             /\ EditedBlock(chain, chain') < Len(chain) )
           => Detected(chain', EditedBlock(chain, chain'))
        /\ ( /\ EditStore
             /\ isChainValid(loadChain(store))
             /\ Len(store.json) >= 2
             /\ EditedBlock(store.json, store'.json) < Len(store.json) )
           => Detected(loadChain(store'), EditedBlock(store.json, store'.json))
      ]_vars

\* A payload field of the middle block of a chain of three was edited, in
\* memory or in the stored item, and both the chain and the chain the stored
\* item loads to pass isChainValid.
C1_Witness ==
    /\ edited
    /\ Len(chain) = 3
    /\ store.has
    /\ Len(store.json) = 3
    /\ chain[2].data # loadChain(store)[2].data
    /\ chain[2].hash = loadChain(store)[2].hash
    /\ isChainValid(chain)
    /\ isChainValid(loadChain(store))

\* C2: no two blocks after the genesis block have the same studentId and the
\* same date.
C2_OneEntryPerSubjectPerDay ==
    \A i, j \in 2..Len(chain) :
        i # j => ~( /\ chain[i].data.studentId = chain[j].data.studentId
                    /\ chain[i].data.date = chain[j].data.date )

\* A second entry for a subject and a day was asked for and turned down, in a
\* chain that holds two entries.
C2_Witness ==
    /\ Len(chain) = 3
    /\ message.what = "already"

\* C3: a request with a non-empty studentId appends one block exactly when no
\* block has that studentId and today's date. Otherwise the chain and the
\* stored item are left as they are and the notice names the first such
\* block's status, whatever status was asked for; that block is never the
\* genesis block.
C3_DuplicateRejected ==
    [][ \A raw \in StudentIdInputs, status \in {Present, Absent} :
          (MarkAttendance(raw, status) /\ trim(raw) # <<>>) =>
            LET S == trim(raw)
                D == ISODate(now)
                same == {i \in 1..Len(chain) :
                            chain[i].data.studentId = S /\ chain[i].data.date = D}
            IN  /\ (Len(chain') = Len(chain) + 1) <=> (same = {})
                /\ same = {} =>
                      /\ SubSeq(chain', 1, Len(chain)) = chain
                      /\ chain'[Len(chain')].data =
                            [studentId |-> S, status |-> status, date |-> D]
                /\ same # {} =>
                      /\ chain' = chain
                      /\ store' = store
                      /\ 1 \notin same
                      /\ \E i \in same :
                            /\ \A j \in same : i <= j
                            /\ message' = Message("info", "already", S, D,
                                                  chain[i].data.status)
      ]_vars

\* A request for a subject marked present today was turned down, with the
\* notice of the existing entry.
C3_Witness ==
    /\ message.what = "already"
    /\ message.status = Present
    /\ \E i \in 2..Len(chain) :
          /\ chain[i].data.studentId = message.studentId
          /\ chain[i].data.date = message.today
          /\ chain[i].data.status = Present

\* Every block after the first has the index after, and the hash of, the block
\* before it.
Linked(c) ==
    \A i \in 2..Len(c) :
        /\ c[i].index = c[i - 1].index + 1
        /\ c[i].previousHash = c[i - 1].hash

\* C4: an append gives the new last block the index after the old last
\* block's, and its hash as previousHash; so every chain reached by appends,
\* resets and restarts is linked.
C4_AppendMonotonic ==
    [][ /\ Linked(chain)
        /\ Linked(chain')
        /\ Len(chain') = Len(chain) + 1 =>
              /\ SubSeq(chain', 1, Len(chain)) = chain
              /\ getLatestBlock(chain').index = getLatestBlock(chain).index + 1
              /\ getLatestBlock(chain').previousHash = getLatestBlock(chain).hash
      ]_vars

\* Two appends have been made to a chain.
C4_Witness ==
    /\ Len(chain) = 3
    /\ chain[3].index = 2
    /\ message.what = "marked"

\* C5: the chain always has its genesis block, of index 0 and previousHash
\* '0'; a chain that was just built or reset has that block alone.
C5_NeverEmpty ==
    /\ Len(chain) >= 1
    /\ chain[1].index = 0
    /\ chain[1].previousHash = <<48>>
    /\ ~store.has => Len(chain) = 1
    /\ message.what = "cleared" => Len(chain) = 1

\* A chain was reset on the last day of the clock.
C5_Witness ==
    /\ message.what = "cleared"
    /\ Len(chain) = 1
    /\ chain[1].timestamp = MaxNow

\* C6: every block's hash is the hash calculated from its fields as they are,
\* and isChainValid returns true.
C6_HashesCurrent ==
    /\ \A i \in 1..Len(chain) : chain[i].hash = calculateHash(chain[i])
    /\ isChainValid(chain)

\* A chain built on the second day holds two entries.
C6_Witness ==
    /\ Len(chain) = 3
    /\ chain[1].timestamp = 1
    /\ store.has

\* The stored text holds an object for every block of chain c, in order, whose
\* members parse to the block's five fields.
Holds(item, c) ==
    /\ item.has
    /\ Len(item.json) = Len(c)
    /\ \A i \in 1..Len(c) :
          /\ JSONParseNumber(item.json[i].index) = c[i].index
          /\ JSONParseTimestamp(item.json[i].timestamp) = c[i].timestamp
          /\ JSONParseString(item.json[i].data.studentId) = c[i].data.studentId
          /\ JSONParseString(item.json[i].data.status) = c[i].data.status
          /\ JSONParseString(item.json[i].data.date) = c[i].data.date
          /\ JSONParseString(item.json[i].previousHash) = c[i].previousHash
          /\ JSONParseString(item.json[i].hash) = c[i].hash

\* C7: after an append or a reset the stored item holds the whole chain in
\* memory; an item, once stored, never holds less or an older chain.
C7_WholeChainPersisted ==
    [][ /\ (Len(chain') = Len(chain) + 1 \/ (message'.what = "cleared" /\ ClearData))
              => Holds(store', chain')
        /\ store'.has => Holds(store', chain')
        /\ Len(chain') > 1 => store'.has
      ]_vars

\* The stored item holds a chain of three blocks.
C7_Witness ==
    /\ Len(chain) = 3
    /\ Holds(store, chain)
    /\ message.what = "marked"

\* C8: loading the stored item gives the chain that was saved, field for
\* field, with the stored hashes; a restart leaves the chain as it was.
C8_RoundTrip ==
    [][ /\ store.has =>
              /\ loadChain(store) = chain
              /\ \A i \in 1..Len(store.json) :
                    JSONString(loadChain(store)[i].hash) = store.json[i].hash
        /\ (Restart /\ store.has) => chain' = chain
      ]_vars

\* The page was loaded again right after an append: the entry made now, for
\* the student id that is escaped in the stored text, is in the chain and the
\* append's message is gone.
C8_Witness ==
    /\ Len(chain) = 3
    /\ chain[3].timestamp = now
    /\ chain[3].data.studentId = SQuote
    /\ store.has
    /\ store.json[3].data.studentId = <<34, 83, 92, 34, 34>>
    /\ message = NoMessage

\* C9: a reset, whatever the chain was, leaves a chain of one new genesis
\* block and a stored item holding that block alone; no studentId is then
\* taken for today; and the append that follows gives block 1, linked to the
\* new genesis block.
C9_Reset ==
    [][ /\ (message'.what = "cleared" /\ ClearData) =>
              /\ Len(chain') = 1
              /\ chain'[1].index = 0
              /\ chain'[1].previousHash = <<48>>
              /\ chain'[1].timestamp = now
              /\ chain'[1].data =
                    [studentId |-> NA, status |-> GenesisStatus, date |-> NA]
              /\ chain'[1].hash = calculateHash(chain'[1])
              /\ Holds(store', chain')
              /\ \A raw \in StudentIdInputs :
                    trim(raw) # <<>> =>
                        ~\E i \in 1..Len(chain') :
                            /\ chain'[i].data.studentId = trim(raw)
                            /\ chain'[i].data.date = ISODate(now)
        /\ (Len(chain) = 1 /\ Len(chain') = 2) =>
              /\ chain'[1] = chain[1]
              /\ chain'[2].index = 1
              /\ chain'[2].previousHash = chain[1].hash
      ]_vars

\* A chain was reset after a block had been edited.
C9_Witness ==
    /\ edited
    /\ message.what = "cleared"
    /\ Len(chain) = 1
    /\ Holds(store, chain)

\* C10, as claimed: once the page has loaded there is a stored item, and
\* loading the page again gives the genesis block the chain has.
C10_InitializePersists ==
    /\ store.has
    /\ NewBlockchain(store, now)[1] = chain[1]

\* C10, amended: loading the page with no stored item gives a chain of one
\* genesis block stamped with the time of that load, and stores nothing; the
\* item is first stored by an append or a reset.
C10_InitializeDoesNotPersist ==
    [][ /\ (Restart /\ ~store.has) =>
              /\ Len(chain') = 1
              /\ chain'[1].index = 0
              /\ chain'[1].timestamp = now
              /\ ~store'.has
        /\ (~store.has /\ store'.has) =>
              (Len(chain') = Len(chain) + 1 \/ (message'.what = "cleared" /\ ClearData))
        /\ ~store.has => Len(chain) = 1
      ]_vars

\* The page was loaded again on the second day with nothing stored: its
\* genesis block is not the one built on the first day.
C10_Witness ==
    /\ ~store.has
    /\ Len(chain) = 1
    /\ chain[1].timestamp = 1
    /\ chain[1].hash # createGenesisBlock(0).hash
\* C11: loading the page with a stored item that cannot be parsed gives a
\* chain of one new genesis block, and the page's handlers are registered.
C11_CorruptFallsBack ==
    [][ (Restart /\ store.has /\ SyntaxError(store.json)) =>
            /\ loaded'
            /\ chain' = <<createGenesisBlock(now)>>
      ]_vars

\* The page was loaded with a stored item cut short: there is no chain and
\* no handler, and the item is still the one that cannot be parsed.
C11_Witness ==
    /\ ~loaded
    /\ chain = <<>>
    /\ store.has
    /\ SyntaxError(store.json)
    /\ Len(store.json) = 3

\* C12: the summary counts the blocks after the genesis block as totalDays
\* and those of status 'present' as presentDays, absentDays is their
\* difference, and the eligibility shown is N/A for no days, Eligible! when
\* 100 * presentDays >= 85 * totalDays, Not Eligible otherwise; 17 of 20 is
\* eligible and 16 of 20 is not.
C12_Summary ==
    [][ Onload =>
          LET total == Len(chain) - 1
              present == Cardinality({i \in 2..Len(chain) :
                                         chain[i].data.status = Present})
          IN  /\ summary'.totalDays = total
              /\ summary'.presentDays = present
              /\ summary'.absentDays = total - present
              /\ summary'.totalDays
                    = summary'.presentDays + summary'.absentDays
              /\ summary'.eligibilityStatus = "N/A" <=> total = 0
              /\ summary'.eligibilityStatus = "Eligible!" <=>
                    (total > 0 /\ 100 * present >= 85 * total)
              /\ summary'.eligibilityStatus = "Not Eligible" <=>
                    (total > 0 /\ 100 * present < 85 * total)
              /\ (present = 17 /\ total = 20) =>
                    summary'.eligibilityStatus = "Eligible!"
              /\ (present = 16 /\ total = 20) =>
                    summary'.eligibilityStatus = "Not Eligible"
      ]_vars

\* The summary of 17 days present and 3 absent is shown.
C12_Witness ==
    /\ Len(chain) = 21
    /\ summary.totalDays = 20
    /\ summary.presentDays = 17
    /\ summary.absentDays = 3
    /\ summary.attendancePercentage = 8500
    /\ summary.eligibilityStatus = "Eligible!"

\* C13: calculateHash gives a block another hash when its index, its
\* previousHash, its timestamp or any one field of its payload is changed.
C13_HashSensitive ==
    \A i \in 1..Len(chain) :
        LET b == chain[i]
        IN  /\ calculateHash([b EXCEPT !.index = @ + 1]) # calculateHash(b)
            /\ calculateHash([b EXCEPT !.previousHash[Len(b.previousHash)] =
                                  IF @ = 65 THEN 66 ELSE 65])
                  # calculateHash(b)
            /\ calculateHash([b EXCEPT !.timestamp = @ + 1]) # calculateHash(b)
            /\ \A field \in PayloadFields :
                  calculateHash(EditBlock(b, field)) # calculateHash(b)

\* The hash of a block marked present is the hash the block has with any
\* other timestamp, student id, status or date.
C13_Witness ==
    /\ Len(chain) = 3
    /\ chain[2].data.status = Present
    /\ chain[2].hash = calculateHash(chain[2])
    /\ chain[2].hash = calculateHash([chain[2] EXCEPT !.timestamp = @ + 1])
    /\ \A field \in PayloadFields :
          chain[2].hash = calculateHash(EditBlock(chain[2], field))

\* C14: a request whose student id is empty or all spaces is turned down
\* with the message asking for an id, and leaves the chain, the stored item
\* and the summary as they are, whatever the chain is.
C14_EmptyRejected ==
    [][ \A raw \in StudentIdInputs, status \in {Present, Absent} :
          ( /\ \A k \in 1..Len(raw) : raw[k] = 32
            /\ Clickable
            /\ MarkAttendance(raw, status) )
          => /\ chain' = chain
             /\ store' = store
             /\ summary' = summary
             /\ message' = Message("error", "enterId", <<>>, <<>>, <<>>)
      ]_vars

\* A request without a student id was turned down on a chain of three blocks
\* one of which had been edited.
C14_Witness ==
    /\ message.what = "enterId"
    /\ message.type = "error"
    /\ Len(chain) = 3
    /\ edited

\* Chain c is the beginning of chain d, block for block.
Prefix(c, d) == Len(c) <= Len(d) /\ SubSeq(d, 1, Len(c)) = c

\* C15, as claimed: every step other than a reset leaves the chain it found
\* as the beginning of the chain, every block as it was.
C15_AppendOnly ==
    [][ ~(message'.what = "cleared" /\ ClearData) => Prefix(chain, chain') ]_vars

\* C15, amended: every step other than a reset, and other than loading the
\* page while nothing is stored, leaves the chain it found as the beginning
\* of the chain; loading the page while nothing is stored puts a new genesis
\* block in the place of the one there was; and the chain gets shorter by a
\* reset alone.
C15_AppendOnlyOnceStored ==
    [][ /\ ( /\ ~(message'.what = "cleared" /\ ClearData)
             /\ ~(Restart /\ ~store.has) )
           => Prefix(chain, chain')
        /\ (Restart /\ ~store.has) =>
              /\ Len(chain) = 1
              /\ chain' = <<createGenesisBlock(now)>>
        /\ Len(chain') < Len(chain) => (message'.what = "cleared" /\ ClearData)
      ]_vars

\* Entries of two days are in the chain, behind the genesis block of the
\* first day, after the page was loaded again.
C15_Witness ==
    /\ Len(chain) = 3
    /\ chain[1].timestamp = 0
    /\ chain[2].timestamp = 0
    /\ chain[3].timestamp = 1
    /\ now = 1
    /\ message = NoMessage
    /\ ~dialog

\* The blocks, numbered as the code numbers them, that fail one of the two
\* checks.
Failing(c) ==
    {i \in 1..(Len(c) - 1) :
        \/ c[i + 1].hash # calculateHash(c[i + 1])
        \/ c[i + 1].previousHash # c[i].hash}

\* C16: isChainValid returns true exactly when every block after the genesis
\* block has the hash calculated from its fields and the hash of the block
\* before it as previousHash; when it returns false it reports the lowest
\* block that fails, with the hash check taken before the link check; the
\* genesis block's own hash is not checked.
C16_ValidIffAllHold ==
    \A failing \in {Failing(chain)}, report \in {consoleError(chain)} :
        /\ isChainValid(chain) <=> failing = {}
        /\ failing = {} => report = [block |-> 0, check |-> "none"]
        /\ failing # {} =>
              /\ report.block \in failing
              /\ \A i \in failing : report.block <= i
              /\ report.check \in {"hash", "link"}
              /\ report.check = "hash" <=>
                    chain[report.block + 1].hash
                        # calculateHash(chain[report.block + 1])

\* The page has shown its warning for a chain of four blocks of which blocks 1
\* and 2 both fail a check, block 1 the link check alone, and in which the
\* genesis block's hash is not the hash calculated from its fields.
C16_Witness ==
    /\ Len(chain) = 4
    /\ Failing(chain) = {1, 2}
    /\ chain[1].hash # calculateHash(chain[1])
    /\ chain[2].hash = calculateHash(chain[2])
    /\ consoleError(chain) = [block |-> 1, check |-> "link"]
    /\ message.what = "tampered"

\* C17: a chain that fails isChainValid keeps failing it whatever the page
\* does next (marking, rendering, summarising, answering the dialog, a day
\* passing, loading the page again), and passes it again only when the step
\* is the reset of clearChain; a step that changes a failing chain without
\* resetting it appends one block to it and stores the whole chain. (A step
\* that leaves the chain as it is leaves the check's result as it is.)
C17_NeverRepaired ==
    [][(chain' # chain /\ ~isChainValid(chain)) =>
          \A valid \in {isChainValid(chain')} :
              /\ valid =>
                    /\ chain' = clearChain(chain, now)
                    /\ message'.what = "cleared"
              /\ ~valid =>
                    /\ Len(chain') = Len(chain) + 1
                    /\ SubSeq(chain', 1, Len(chain)) = chain
                    /\ store' = saveChain(chain')
                    /\ message'.what = "marked"]_vars

\* A chain that fails the check was appended to: a block whose stored hash
\* was rewritten is followed by a block that links to the rewritten hash.
C17_Witness ==
    /\ ~isChainValid(chain)
    /\ message.what = "marked"
    /\ \E k \in 1..(Len(chain) - 2) :
           /\ HashMismatch(chain, k)
           /\ ~LinkMismatch(chain, k + 1)
           /\ ~HashMismatch(chain, k + 1)

\* C18: the reset waits for the answer Yes: the click on the clear-data
\* button, which opens the confirmation dialog, and every step taken while
\* the dialog is unanswered leave the chain and the stored item as they
\* were, and so does the answer No.
C18_ResetGated ==
    [][(dialog' \/ AnswerNo) => (chain' = chain /\ store' = store)]_vars

\* The dialog is open and unanswered, and the reset has been made already:
\* the chain is one new genesis block, stored, and the page says so.
C18_Witness ==
    /\ dialog
    /\ message.what = "cleared"
    /\ Len(chain) = 1
    /\ store = saveChain(chain)
    /\ chain[1] = createGenesisBlock(now)
    /\ now > 0

\* The blocks of chain c.
Blocks(c) == {c[i] : i \in 1..Len(c)}

\* C19: with the page open in two tabs, every step that changes the stored
\* item is an append or a reset made by the tab in front on its own chain
\* in memory, and leaves in the store that chain, whole, and nothing else:
\* the other tab's chain is left as it was, and every block of it that the
\* writing tab's chain lacks is absent from what the store then loads to.
C19_LastWriterWins ==
    [][store' # store =>
          /\ store' = saveChain(chain')
          /\ loadChain(store') = chain'
          /\ \/ chain' = clearChain(chain, now)
             \/ chain' # chain /\ Prefix(chain, chain') /\ Len(chain') = Len(chain) + 1
          /\ other'.chain = other.chain
          /\ \A b \in Blocks(other.chain) \ Blocks(chain') :
                b \notin Blocks(loadChain(store'))]_vars

\* An update is lost: the tab behind holds, and had stored, an entry that the
\* tab in front, which has just appended to its own chain, has written over.
C19_Witness ==
    /\ loaded /\ other.loaded
    /\ message.what = "marked"
    /\ other.message.what = "marked"
    /\ store = saveChain(chain)
    /\ \E b \in Blocks(other.chain) :
           /\ b.index > 0
           /\ b \notin Blocks(chain)
           /\ b \notin Blocks(loadChain(store))
====
